---- MODULE Spec2Model ----
(***************************************************************************)
(* Model of tfglib/seq2seq_datatable.py: the class Seq2SeqDatatable, its   *)
(* constructor, find_longest_sequence, seq2seq_build_file_table, the fold  *)
(* of seq2seq_construct_datatable, seq2seq_save_datatable and              *)
(* seq2seq2_load_datatable.                                                *)
(*                                                                         *)
(* Arrays are sequences of rows, a row a sequence of numbers; indices are  *)
(* 1-based here and 0-based in the Python source, so column c of the       *)
(* source is column c+1 of the model.  Feature values are small integers.  *)
(***************************************************************************)
EXTENDS Integers, Sequences, FiniteSets, TLC

VARIABLES
  disk,           \* the data directory: the two list files and the parameter files
  fs,             \* the containers on disk, by path
  pc,             \* where the program is in the life of the instance
  args,           \* the arguments the constructor was called with
  self,           \* the instance's attributes
  warned,         \* the messages the constructor printed
  printed,        \* the triples seq2seq_construct_datatable printed (line 252)
  loop,           \* src_index, trg_index and the position in basenames
  src_datatable, trg_datatable, src_masks, trg_masks,  \* locals of construct
  spk_max, spk_min,                                    \* locals of construct
  error,          \* the exception that ended the last call, or "none"
  ret,            \* what seq2seq_save_datatable returned
  loaded          \* what seq2seq2_load_datatable returned

vars == <<disk, fs, pc, args, self, warned, printed, loop, src_datatable,
          trg_datatable, src_masks, trg_masks, spk_max, spk_min, error, ret,
          loaded>>

(***************************************************************************)
(* Bounds of the model.                                                    *)
(***************************************************************************)
MaxSpeakers == 2
MaxBasenames == 2
MaxFrames == 2

(***************************************************************************)
(* Constants of the program.                                               *)
(***************************************************************************)
McpDim == 40
NumSpeakerSlots == 10
StatDim == 42
\* 1e+50, the start of the running minimum: the largest number TLC has; every
\* feature value of the model is far below it.
SpkMinInit == 2147483647

\* Python's None, which is no integer a caller of the model passes.
None == 0 - 1
\* An argument that is not a str.
NotAStr == "<not a str>"
IsStr(x) == x # NotAStr

AllSpeakers == <<"A", "B", "C", "D">>
AllBasenames == <<"u1", "u2", "u3", "u4">>
Offsets == {0 - 5, 0}
Damages == {"no_lf0", "no_mcp", "lf0_rows"}

ContainerPaths == {"table", "table.h5", "table.h5.h5"}
NoFile == [exists |-> FALSE]
NoValue == [ok |-> FALSE]
NoInstance == [exists |-> FALSE]

IndexOf(seq, x) == CHOOSE i \in 1..Len(seq) : seq[i] = x
Maximum(a, b) == IF a >= b THEN a ELSE b
Minimum(a, b) == IF a <= b THEN a ELSE b
SetMax(S) == CHOOSE m \in S : \A y \in S : m >= y
SetMin(S) == CHOOSE m \in S : \A y \in S : m <= y
Zeros(n, w) == [i \in 1..n |-> [j \in 1..w |-> 0]]
Ones(n, w) == [i \in 1..n |-> [j \in 1..w |-> 1]]
Rows(m) == Len(m)
Width(m) == IF m = <<>> THEN 0 ELSE Len(m[1])
\* An array in memory: appending nothing makes TLC compute the elements once
\* instead of at every use.
Array(m) == m \o <<>>
\* np.concatenate(parts, axis=1) of two arrays with the same number of rows
HCat(a, b) == Array([i \in 1..Len(a) |-> a[i] \o b[i]])
Raise(e) == [ok |-> FALSE, error |-> e]

(***************************************************************************)
(* The parameter files.  The files of one (speaker, basename) hold         *)
(* disk.rows[speaker, basename] frames in every stream; a damaged raw      *)
(* pitch file holds one frame more, a missing file cannot be read.         *)
(***************************************************************************)
FileSeed(speaker, basename) ==
  3 * IndexOf(AllSpeakers, speaker) + 2 * IndexOf(AllBasenames, basename)

FileValue(seed, frame, col) == ((seed + frame + col) % 4) + disk.offset

\* raw voicing: 0 marks an unvoiced frame
Voicing(seed, frame) == (seed + frame) % 2

parse_file(dim, speaker, basename, kind) ==
  LET damage == disk.damage[<<speaker, basename>>]
      n == disk.rows[<<speaker, basename>>]
      seed == FileSeed(speaker, basename)
      first == CASE kind = "mcp" -> 0
                 [] kind \in {"lf0", "lf0.i"} -> McpDim
                 [] OTHER -> McpDim + 1
  IN  IF \/ (kind = "lf0" /\ damage = "no_lf0")
         \/ (kind = "mcp" /\ damage = "no_mcp")
        THEN Raise("IOError")
      ELSE IF kind = "vf"
        THEN [ok |-> TRUE,
              data |-> Array([i \in 1..n |-> <<Voicing(seed, i)>>])]
      ELSE [ok |-> TRUE,
            data |-> Array([i \in 1..(IF kind = "lf0" /\ damage = "lf0_rows"
                                        THEN n + 1 ELSE n) |->
                              Array([j \in 1..dim |->
                                       FileValue(seed, i, first + j)])])]

kronecker_delta(x) == IF x = 0 THEN 1 ELSE 0

to_categorical(y, num_classes) ==
  [i \in 1..Len(y) |-> [j \in 1..num_classes |-> IF j = y[i] + 1 THEN 1 ELSE 0]]

zero_pad_params(max_length, mode, params) ==
  IF mode = "src"
    THEN Zeros(max_length - Rows(params), Width(params)) \o params
    ELSE params \o Zeros(max_length - Rows(params), Width(params))

(***************************************************************************)
(* find_longest_sequence                                                   *)
(***************************************************************************)
RECURSIVE LongestOver(_, _, _, _)
\* the two nested loops, pair by pair: position p counts the pairs done
LongestOver(speakers_list, basenames_list, p, longest_sequence) ==
  IF p >= Len(speakers_list) * Len(basenames_list)
    THEN [ok |-> TRUE, value |-> longest_sequence]
  ELSE LET speaker == speakers_list[(p \div Len(basenames_list)) + 1]
           basename == basenames_list[(p % Len(basenames_list)) + 1]
           params == parse_file(1, speaker, basename, "lf0")
       IN  IF ~params.ok THEN Raise(params.error)
           ELSE LongestOver(speakers_list, basenames_list, p + 1,
                            IF Rows(params.data) > longest_sequence
                              THEN Rows(params.data) ELSE longest_sequence)

\* the scan of the first speaker alone
LongestOfFirstSpeaker(speakers_list, basenames_list) ==
  LongestOver(SubSeq(speakers_list, 1, 1), basenames_list, 0, 0)

find_longest_sequence(speakers_list, basenames_list) ==
  LongestOver(speakers_list, basenames_list, 0, 0)

(***************************************************************************)
(* seq2seq_build_file_table                                                *)
(***************************************************************************)
\* the flag set on the first row instead of the last
EosFlagFirst(n) == [i \in 1..n |-> <<IF i = 1 THEN 1 ELSE 0>>]

\* np.zeros(shape); flag[-1, :] = 1, for a stream of n rows
EosFlag(n) == [i \in 1..n |-> <<IF i = n THEN 1 ELSE 0>>]

\* the source mask padded at the end, like the target mask
SourceMaskAtEnd(max_seq_length, n) ==
  Ones(n, 1) \o Zeros(max_seq_length - n, 1)

\* zeros in front, then one 1 for each of the n rows of source_mcp
SourceMask(max_seq_length, n) == Zeros(max_seq_length - n, 1) \o Ones(n, 1)

\* one 1 for each of the n rows of target_mcp, then zeros
TargetMask(max_seq_length, n) == Ones(n, 1) \o Zeros(max_seq_length - n, 1)

seq2seq_build_file_table(max_seq_length, src_spk, src_index, trg_spk, trg_index, basename) ==
  LET source_mcp == parse_file(McpDim, src_spk, basename, "mcp")
      source_f0 == parse_file(1, src_spk, basename, "lf0")
      source_f0_i == parse_file(1, src_spk, basename, "lf0.i")
      source_vf == parse_file(1, src_spk, basename, "vf")
      source_vf_i == parse_file(1, src_spk, basename, "vf.i")
      target_mcp == parse_file(McpDim, trg_spk, basename, "mcp")
      target_f0 == parse_file(1, trg_spk, basename, "lf0")
      target_f0_i == parse_file(1, trg_spk, basename, "lf0.i")
      target_vf == parse_file(1, trg_spk, basename, "vf")
      target_vf_i == parse_file(1, trg_spk, basename, "vf.i")
      files == <<source_mcp, source_f0, source_f0_i, source_vf, source_vf_i,
                 target_mcp, target_f0, target_f0_i, target_vf, target_vf_i>>
      source_voiced == [i \in 1..Rows(source_vf.data) |->
                          <<1 - kronecker_delta(source_vf.data[i][1])>>]
      target_voiced == [i \in 1..Rows(target_vf.data) |->
                          <<1 - kronecker_delta(target_vf.data[i][1])>>]
      src_eos_flag == EosFlag(Rows(source_vf.data))
      trg_eos_flag == EosFlag(Rows(target_vf.data))
      src_spk_index == to_categorical(
                         [i \in 1..Rows(source_vf.data) |-> src_index],
                         NumSpeakerSlots)
      trg_spk_index == to_categorical(
                         [i \in 1..Rows(target_vf.data) |-> trg_index],
                         NumSpeakerSlots)
      source_mask == SourceMask(max_seq_length, Rows(source_mcp.data))
      target_mask == TargetMask(max_seq_length, Rows(target_mcp.data))
      source_params ==
        HCat(HCat(HCat(HCat(HCat(HCat(
          zero_pad_params(max_seq_length, "src", source_mcp.data),
          zero_pad_params(max_seq_length, "src", source_f0_i.data)),
          zero_pad_params(max_seq_length, "src", source_vf_i.data)),
          zero_pad_params(max_seq_length, "src", source_voiced)),
          zero_pad_params(max_seq_length, "src", src_eos_flag)),
          zero_pad_params(max_seq_length, "src", src_spk_index)),
          zero_pad_params(max_seq_length, "src", trg_spk_index))
      target_params ==
        HCat(HCat(HCat(HCat(
          zero_pad_params(max_seq_length, "trg", target_mcp.data),
          zero_pad_params(max_seq_length, "trg", target_f0_i.data)),
          zero_pad_params(max_seq_length, "trg", target_vf_i.data)),
          zero_pad_params(max_seq_length, "trg", target_voiced)),
          zero_pad_params(max_seq_length, "trg", trg_eos_flag))
  IN  IF \E i \in 1..Len(files) : ~files[i].ok THEN Raise("IOError")
      \* assert source_vf.shape == source_f0.shape, both one column wide
      ELSE IF Rows(source_vf.data) # Rows(source_f0.data)
        THEN Raise("AssertionError")
      ELSE IF Rows(target_vf.data) # Rows(target_f0.data)
        THEN Raise("AssertionError")
      \* src_eos_flag[-1, :] = 1 on an array without rows
      ELSE IF Rows(source_vf.data) = 0 \/ Rows(target_vf.data) = 0
        THEN Raise("IndexError")
      ELSE IF src_index >= NumSpeakerSlots \/ trg_index >= NumSpeakerSlots
        THEN Raise("IndexError")
      \* self.max_seq_length - source_mcp.shape[0] with max_seq_length None
      ELSE IF max_seq_length = None THEN Raise("TypeError")
      \* np.zeros of a negative number of rows
      ELSE IF \/ max_seq_length - Rows(source_mcp.data) < 0
              \/ max_seq_length - Rows(target_mcp.data) < 0
        THEN Raise("ValueError")
      ELSE IF Len(source_mask) # Len(target_mask) THEN Raise("AssertionError")
      ELSE [ok |-> TRUE,
            source_params |-> source_params, source_mask |-> source_mask,
            target_params |-> target_params, target_mask |-> target_mask]

(***************************************************************************)
(* The data directories of the model.  Every (speaker, basename) holds     *)
(* MaxFrames frames but one, which holds any number of frames up to        *)
(* MaxFrames (none included) or is damaged.                                *)
(***************************************************************************)
Pairs(speakers, basenames) ==
  {<<speakers[i], basenames[j]>> :
     i \in 1..Len(speakers), j \in 1..Len(basenames)}

MakeDisk(S, U, odd, oddrows, dmg, offset) ==
  LET speakers == SubSeq(AllSpeakers, 1, S)
      basenames == SubSeq(AllBasenames, 1, U)
  IN  [speakers |-> speakers, basenames |-> basenames, offset |-> offset,
       rows |-> [p \in Pairs(speakers, basenames) |->
                   IF p = odd THEN oddrows ELSE MaxFrames],
       damage |-> [p \in Pairs(speakers, basenames) |->
                     IF p = odd THEN dmg ELSE "ok"]]

DisksOf(S, U) ==
  LET pairs == Pairs(SubSeq(AllSpeakers, 1, S), SubSeq(AllBasenames, 1, U))
  IN  IF pairs = {} THEN {MakeDisk(S, U, <<>>, 0, "ok", 0)}
      ELSE {MakeDisk(S, U, odd, oddrows, "ok", offset) :
              odd \in pairs, oddrows \in 0..MaxFrames, offset \in Offsets}
           \cup
           {MakeDisk(S, U, odd, MaxFrames, dmg, 0) :
              odd \in pairs, dmg \in Damages}

Disks == UNION {DisksOf(S, U) : S \in 0..MaxSpeakers, U \in 0..MaxBasenames}

\* the persistence runs: whole data, one basename
PersistDisks ==
  {MakeDisk(S, 1, <<AllSpeakers[1], AllBasenames[1]>>, oddrows, "ok", 0) :
     S \in 1..MaxSpeakers, oddrows \in 1..MaxFrames}

LengthArgs == {None} \cup 1..(MaxFrames + 1)
NoArgs == [shortseq |-> FALSE, max_seq_length |-> None,
           datatable_file |-> ""]

Fresh ==
  /\ pc = "new"
  /\ fs = [p \in ContainerPaths |-> NoFile]
  /\ args = NoArgs
  /\ self = NoInstance
  /\ warned = {}
  /\ printed = <<>>
  /\ loop = [src_index |-> 0, trg_index |-> 0, base |-> 0]
  /\ src_datatable = <<>>
  /\ trg_datatable = <<>>
  /\ src_masks = <<>>
  /\ trg_masks = <<>>
  /\ spk_max = <<>>
  /\ spk_min = <<>>
  /\ error = "none"
  /\ ret = NoValue
  /\ loaded = NoValue

Init == disk \in Disks /\ Fresh

InitPersist == disk \in PersistDisks /\ Fresh

(***************************************************************************)
(* Seq2SeqDatatable.__init__                                               *)
(***************************************************************************)
Construct(shortseq, max_seq_length, datatable_file) ==
  LET speakers == disk.speakers
      basenames == disk.basenames
      longest == find_longest_sequence(speakers, basenames)
  IN  /\ args' = [shortseq |-> shortseq, max_seq_length |-> max_seq_length,
                  datatable_file |-> datatable_file]
      \* both assertions are caught and answered with a message
      /\ warned' =
           (IF (shortseq /\ max_seq_length # None) \/ ~shortseq THEN {}
            ELSE {"please set the 'max_seq_length' parameter as an integer value"})
           \cup
           (IF IsStr(datatable_file) THEN {}
            ELSE {"Please, make sure the data output filename is a string"})
      /\ IF shortseq
           THEN /\ self' = [exists |-> TRUE, datatable_file |-> datatable_file,
                            speakers |-> speakers, basenames |-> basenames,
                            max_seq_length |-> max_seq_length]
                /\ pc' = "ready"
                /\ error' = "none"
         ELSE IF longest.ok
           THEN /\ self' = [exists |-> TRUE, datatable_file |-> datatable_file,
                            speakers |-> speakers, basenames |-> basenames,
                            max_seq_length |-> longest.value]
                /\ pc' = "ready"
                /\ error' = "none"
         ELSE /\ self' = NoInstance
              /\ pc' = "ctor_failed"
              /\ error' = longest.error
      /\ printed' = <<>>
      /\ loop' = [src_index |-> 0, trg_index |-> 0, base |-> 0]
      /\ src_datatable' = <<>>
      /\ trg_datatable' = <<>>
      /\ src_masks' = <<>>
      /\ trg_masks' = <<>>
      /\ spk_max' = <<>>
      /\ spk_min' = <<>>
      /\ ret' = NoValue
      /\ loaded' = NoValue
      /\ UNCHANGED <<disk, fs>>

Ctor(shortseq, max_seq_length, datatable_file) ==
  /\ pc = "new"
  /\ Construct(shortseq, max_seq_length, datatable_file)

\* a second instance, made for the container the first one wrote
Reopen(shortseq, max_seq_length) ==
  /\ pc = "saved"
  /\ (self.datatable_file \o ".h5") \o ".h5" \in ContainerPaths
  /\ Construct(shortseq, max_seq_length, self.datatable_file \o ".h5")

(***************************************************************************)
(* seq2seq_construct_datatable, entered from seq2seq_save_datatable        *)
(***************************************************************************)
Exhausted ==
  \/ Len(self.basenames) = 0
  \/ loop.src_index >= Len(self.speakers)

\* the loops nested the other way: targets innermost, basenames in the middle
NextTripleTargetsInside(l, S, U) ==
  IF l.trg_index + 1 < S THEN [l EXCEPT !.trg_index = l.trg_index + 1]
  ELSE IF l.base + 1 < U
    THEN [l EXCEPT !.base = l.base + 1, !.trg_index = 0]
  ELSE [src_index |-> l.src_index + 1, trg_index |-> 0, base |-> 0]

\* the step of the three nested for loops
NextTriple(l, S, U) ==
  IF l.base + 1 < U THEN [l EXCEPT !.base = l.base + 1]
  ELSE IF l.trg_index + 1 < S
    THEN [l EXCEPT !.trg_index = l.trg_index + 1, !.base = 0]
  ELSE [src_index |-> l.src_index + 1, trg_index |-> 0, base |-> 0]

SaveBegin ==
  /\ pc = "ready"
  /\ pc' = "folding"
  /\ src_datatable' = <<>>
  /\ trg_datatable' = <<>>
  /\ src_masks' = <<>>
  /\ trg_masks' = <<>>
  /\ spk_max' = Zeros(NumSpeakerSlots, StatDim)
  /\ spk_min' = [r \in 1..NumSpeakerSlots |-> [c \in 1..StatDim |-> SpkMinInit]]
  /\ loop' = [src_index |-> 0, trg_index |-> 0, base |-> 0]
  /\ printed' = <<>>
  /\ UNCHANGED <<disk, fs, args, self, warned, error, ret, loaded>>

\* mask_data(params[:, 0:42], mask): the rows the mask keeps
mask_data(params, mask) ==
  Array([k \in 1..Cardinality({i \in 1..Len(mask) : mask[i][1] = 1}) |->
           params[CHOOSE i \in 1..Len(mask) :
                    /\ mask[i][1] = 1
                    /\ Cardinality({h \in 1..i : mask[h][1] = 1}) = k]])

\* np.ma.max(masked_params, axis=0) and np.ma.min(masked_params, axis=0)
RECURSIVE ColMax(_, _, _)
ColMax(rows, c, upto) ==
  IF upto = 1 THEN rows[1][c]
  ELSE Maximum(ColMax(rows, c, upto - 1), rows[upto][c])
RECURSIVE ColMin(_, _, _)
ColMin(rows, c, upto) ==
  IF upto = 1 THEN rows[1][c]
  ELSE Minimum(ColMin(rows, c, upto - 1), rows[upto][c])

\* the running maximum overwritten by the maximum of the last utterance
FoldMaxOverwrite(running, masked_params) ==
  [c \in 1..StatDim |-> ColMax(masked_params, c, Len(masked_params))]

\* np.maximum(spk_max[src_index, :], ...) and np.minimum(spk_min[src_index, :], ...)
FoldMax(running, masked_params) ==
  [c \in 1..StatDim |->
     Maximum(running[c], ColMax(masked_params, c, Len(masked_params)))]
FoldMin(running, masked_params) ==
  [c \in 1..StatDim |->
     Minimum(running[c], ColMin(masked_params, c, Len(masked_params)))]

BuildAt(l) ==
  seq2seq_build_file_table(self.max_seq_length,
                           self.speakers[l.src_index + 1], l.src_index,
                           self.speakers[l.trg_index + 1], l.trg_index,
                           self.basenames[l.base + 1])

\* the failing triple skipped and the loops carried on
AbortSkipping(e) ==
  /\ loop' = NextTriple(loop, Len(self.speakers), Len(self.basenames))
  /\ UNCHANGED <<pc, error, src_datatable, trg_datatable, src_masks,
                 trg_masks, spk_max, spk_min>>

\* an exception of the builder leaves construct and save at once
Abort(e) ==
  /\ pc' = "failed"
  /\ error' = e
  /\ UNCHANGED <<loop, src_datatable, trg_datatable, src_masks, trg_masks,
                 spk_max, spk_min>>

FoldStep ==
  /\ pc = "folding"
  /\ ~Exhausted
  /\ LET aux == BuildAt(loop)
         masked_params == mask_data(aux.source_params, aux.source_mask)
     IN  /\ printed' = Append(printed, <<self.speakers[loop.src_index + 1],
                                         self.speakers[loop.trg_index + 1],
                                         self.basenames[loop.base + 1]>>)
         /\ IF ~aux.ok
              THEN Abort(aux.error)
            ELSE /\ spk_max' = [spk_max EXCEPT ![loop.src_index + 1] =
                        FoldMax(@, masked_params)]
                 /\ spk_min' = [spk_min EXCEPT ![loop.src_index + 1] =
                        FoldMin(@, masked_params)]
                 /\ src_datatable' = Append(src_datatable, aux.source_params)
                 /\ trg_datatable' = Append(trg_datatable, aux.target_params)
                 /\ src_masks' = Append(src_masks, aux.source_mask)
                 /\ trg_masks' = Append(trg_masks, aux.target_mask)
                 /\ loop' = NextTriple(loop, Len(self.speakers),
                                       Len(self.basenames))
                 /\ UNCHANGED <<pc, error>>
  /\ UNCHANGED <<disk, fs, args, self, warned, ret, loaded>>

\* np.array(masks).reshape(-1, max_seq_length)
Reshape(masks) == [k \in 1..Len(masks) |->
                     [i \in 1..Len(masks[k]) |-> masks[k][i][1]]]

(***************************************************************************)
(* The return of seq2seq_construct_datatable and the rest of               *)
(* seq2seq_save_datatable.  The container stores what it is given: the     *)
(* three attributes and the four datasets.                                 *)
(***************************************************************************)
SaveFinish ==
  /\ pc = "folding"
  /\ Exhausted
  /\ LET failure ==
           \* reshape(-1, None); reshape(-1, 0) of an array without elements
           IF self.max_seq_length = None THEN "TypeError"
           ELSE IF Len(src_masks) = 0 /\ self.max_seq_length = 0
             THEN "ValueError"
           \* self.datatable_file + '.h5'
           ELSE IF ~IsStr(self.datatable_file) THEN "TypeError"
           ELSE "none"
         result == [ok |-> TRUE,
                    source_datatable |-> src_datatable,
                    source_masks |-> Reshape(src_masks),
                    target_datatable |-> trg_datatable,
                    target_masks |-> Reshape(trg_masks),
                    speakers_max |-> spk_max,
                    speakers_min |-> spk_min]
     IN  IF failure # "none"
           THEN /\ pc' = "failed"
                /\ error' = failure
                /\ UNCHANGED <<fs, ret>>
         ELSE /\ fs' = [fs EXCEPT ![self.datatable_file \o ".h5"] =
                    [exists |-> TRUE,
                     max_seq_length |-> self.max_seq_length,
                     speakers_max |-> result.speakers_max,
                     speakers_min |-> result.speakers_min,
                     src_datatable |-> result.source_datatable,
                     trg_datatable |-> result.target_datatable,
                     src_mask |-> result.source_masks,
                     trg_mask |-> result.target_masks]]
              /\ ret' = result
              /\ pc' = "saved"
              /\ UNCHANGED error
  /\ UNCHANGED <<disk, args, self, warned, printed, loop, src_datatable,
                 trg_datatable, src_masks, trg_masks, spk_max, spk_min, loaded>>

(***************************************************************************)
(* seq2seq2_load_datatable                                                 *)
(***************************************************************************)
Load ==
  /\ pc \in {"ready", "saved"}
  /\ IF ~IsStr(self.datatable_file)
       THEN /\ pc' = "load_failed"
            /\ error' = "TypeError"
            /\ UNCHANGED <<self, loaded>>
     ELSE IF ~fs[self.datatable_file].exists
       THEN /\ pc' = "load_failed"
            /\ error' = "IOError"
            /\ UNCHANGED <<self, loaded>>
     ELSE LET file == fs[self.datatable_file]
          IN  /\ loaded' = [ok |-> TRUE,
                            source_datatable |-> file.src_datatable,
                            source_masks |-> file.src_mask,
                            target_datatable |-> file.trg_datatable,
                            target_masks |-> file.trg_mask,
                            speakers_max |-> file.speakers_max,
                            speakers_min |-> file.speakers_min]
              /\ self' = [self EXCEPT !.max_seq_length = file.max_seq_length]
              /\ pc' = "loaded"
              /\ UNCHANGED error
  /\ UNCHANGED <<disk, fs, args, warned, printed, loop, src_datatable,
                 trg_datatable, src_masks, trg_masks, spk_max, spk_min, ret>>

Next ==
  \/ \E shortseq \in BOOLEAN, max_seq_length \in LengthArgs,
        datatable_file \in {"table", NotAStr} :
       /\ (~shortseq => max_seq_length = None)
       /\ (~IsStr(datatable_file) => ~shortseq)
       /\ Ctor(shortseq, max_seq_length, datatable_file)
  \/ SaveBegin
  \/ FoldStep
  \/ SaveFinish

Spec == Init /\ [][Next]_vars

NextPersist ==
  \/ \E shortseq \in BOOLEAN, max_seq_length \in LengthArgs :
       /\ (~shortseq => max_seq_length = None)
       /\ Ctor(shortseq, max_seq_length, "table")
  \/ \E shortseq \in BOOLEAN, max_seq_length \in LengthArgs :
       /\ (~shortseq => max_seq_length = None)
       /\ Reopen(shortseq, max_seq_length)
  \/ SaveBegin
  \/ FoldStep
  \/ SaveFinish
  \/ Load

SpecPersist == InitPersist /\ [][NextPersist]_vars

(***************************************************************************)
(* The claims.  printed[k] names the triple whose tensors and masks are    *)
(* entry k of the four collections.                                        *)
(***************************************************************************)
EosCol == McpDim + 4
TargetOneHot == McpDim + 5 + NumSpeakerSlots
SourceWidth == McpDim + 4 + 2 * NumSpeakerSlots

SourceFrames(k) == disk.rows[<<printed[k][1], printed[k][3]>>]
TargetFrames(k) == disk.rows[<<printed[k][2], printed[k][3]>>]
CountOnes(mask) == Cardinality({i \in 1..Len(mask) : mask[i] = <<1>>})
NumTriples == Len(self.speakers) * Len(self.speakers) * Len(self.basenames)

\* C1: every source mask built has max_seq_length entries, as many 1s as the
\* source has real frames, all at the end; every target mask has
\* max_seq_length entries, as many 1s as the target has real frames, all at
\* the start.
C1_MaskLayout ==
  \A k \in 1..Len(src_masks) :
    /\ Len(src_masks[k]) = self.max_seq_length
    /\ Len(trg_masks[k]) = self.max_seq_length
    /\ CountOnes(src_masks[k]) = SourceFrames(k)
    /\ CountOnes(trg_masks[k]) = TargetFrames(k)
    /\ \A i \in 1..self.max_seq_length :
         /\ src_masks[k][i] =
              <<IF i > self.max_seq_length - SourceFrames(k) THEN 1 ELSE 0>>
         /\ trg_masks[k][i] = <<IF i <= TargetFrames(k) THEN 1 ELSE 0>>

\* a triple was built whose two sides are both padded, by different amounts
C1_Witness ==
  \E k \in 1..Len(src_masks) :
    /\ SourceFrames(k) < self.max_seq_length
    /\ TargetFrames(k) < self.max_seq_length
    /\ SourceFrames(k) # TargetFrames(k)
    /\ src_masks[k][1] = <<0>>
    /\ trg_masks[k][1] = <<1>>

\* C2: in the source tensor and in the target tensor of every triple the
\* end-of-sequence column holds one 1 and zeros elsewhere; the 1 is on the
\* last row whose mask is 1: the last row of the source tensor, the row of
\* the last real frame of the target tensor.
C2_EosOnLastRealRow ==
  \A k \in 1..Len(src_datatable) :
    /\ \A i \in 1..self.max_seq_length :
         /\ src_datatable[k][i][EosCol] =
              (IF i = self.max_seq_length THEN 1 ELSE 0)
         /\ trg_datatable[k][i][EosCol] =
              (IF i = TargetFrames(k) THEN 1 ELSE 0)
    /\ src_masks[k][self.max_seq_length] = <<1>>
    /\ trg_masks[k][TargetFrames(k)] = <<1>>
    /\ \A i \in (TargetFrames(k) + 1)..self.max_seq_length :
         trg_masks[k][i] = <<0>>

\* a triple was built whose source has several real frames behind padding
\* and whose target has padding behind its real frames
C2_Witness ==
  \E k \in 1..Len(src_datatable) :
    /\ SourceFrames(k) > 1
    /\ SourceFrames(k) < self.max_seq_length
    /\ TargetFrames(k) < self.max_seq_length
    /\ trg_datatable[k][TargetFrames(k)][EosCol] = 1

\* C4: when construct has completed, each of the four collections holds
\* S*S*U entries and the entry at index (s*S + t)*U + u is what the builder
\* gives for (speaker s, speaker t, utterance u).
C4_IterationOrder ==
  pc = "saved" =>
    /\ Len(ret.source_datatable) = NumTriples
    /\ Len(ret.source_masks) = NumTriples
    /\ Len(ret.target_datatable) = NumTriples
    /\ Len(ret.target_masks) = NumTriples
    /\ \A s \in 0..(Len(self.speakers) - 1), t \in 0..(Len(self.speakers) - 1),
          u \in 0..(Len(self.basenames) - 1) :
         LET k == (s * Len(self.speakers) + t) * Len(self.basenames) + u + 1
             built == seq2seq_build_file_table(
                        self.max_seq_length, self.speakers[s + 1], s,
                        self.speakers[t + 1], t, self.basenames[u + 1])
         IN  /\ built.ok
             /\ ret.source_datatable[k] = built.source_params
             /\ ret.target_datatable[k] = built.target_params
             /\ ret.source_masks[k] = Reshape(<<built.source_mask>>)[1]
             /\ ret.target_masks[k] = Reshape(<<built.target_mask>>)[1]
             /\ printed[k] = <<self.speakers[s + 1], self.speakers[t + 1],
                               self.basenames[u + 1]>>

\* construct has completed over several speakers and several utterances
C4_Witness ==
  /\ pc = "saved"
  /\ Len(self.speakers) > 1
  /\ Len(self.basenames) > 1
  /\ Len(ret.source_datatable) = NumTriples

\* the triple printed k-th cannot be built: a file of it is missing, its raw
\* pitch and raw voicing differ in shape, or one side has more real frames
\* than max_seq_length
BadTriple(k) ==
  \/ disk.damage[<<printed[k][1], printed[k][3]>>] # "ok"
  \/ disk.damage[<<printed[k][2], printed[k][3]>>] # "ok"
  \/ /\ self.max_seq_length # None
     /\ \/ SourceFrames(k) > self.max_seq_length
        \/ TargetFrames(k) > self.max_seq_length

\* C7: a triple that cannot be built ends construct in error at that triple:
\* it is the last triple taken up, all that the collections hold is what the
\* triples before it gave, nothing is returned and no container is written.
C7_FailureAborts ==
  \A k \in 1..Len(printed) :
    BadTriple(k) =>
      /\ k = Len(printed)
      /\ pc = "failed"
      /\ error \in {"IOError", "AssertionError", "ValueError"}
      /\ Len(src_datatable) = k - 1
      /\ ret = NoValue
      /\ \A p \in ContainerPaths : fs[p] = NoFile

\* construct failed at a triple after others were built and before the last
C7_Witness ==
  /\ pc = "failed"
  /\ Len(printed) > 1
  /\ Len(printed) < NumTriples
  /\ BadTriple(Len(printed))

\* the number of rows of the raw pitch file of a pair
PitchRows(p) == Rows(parse_file(1, p[1], p[2], "lf0").data)

\* C8: with shortseq False, max_seq_length is what find_longest_sequence
\* returned: no pitch stream of the lists has more rows, some pitch stream has
\* as many when both lists have entries, and it is 0 when one list is empty.
C8_LongestSequence ==
  (pc \in {"ready", "folding", "failed", "saved"} /\ ~args.shortseq) =>
    LET pairs == Pairs(self.speakers, self.basenames)
    IN  /\ \A p \in pairs : self.max_seq_length >= PitchRows(p)
        /\ pairs # {} => \E p \in pairs : self.max_seq_length = PitchRows(p)
        /\ pairs = {} => self.max_seq_length = 0

\* the longest pitch stream is not the first speaker's
C8_Witness ==
  /\ pc = "ready"
  /\ ~args.shortseq
  /\ Len(self.speakers) > 1
  /\ Len(self.basenames) > 0
  /\ \A j \in 1..Len(self.basenames) :
       PitchRows(<<self.speakers[1], self.basenames[j]>>) < self.max_seq_length

\* C9: no step taken while construct folds lowers an entry of the running
\* maximum or raises an entry of the running minimum, for any of the ten
\* speaker slots.
C9_RunningExtremaMonotone ==
  [][pc = "folding" =>
       \A r \in 1..NumSpeakerSlots, c \in 1..StatDim :
         /\ spk_max'[r][c] >= spk_max[r][c]
         /\ spk_min'[r][c] <= spk_min[r][c]]_vars

\* two utterances of one speaker were folded and moved both extrema
C9_Witness ==
  /\ pc = "folding"
  /\ Len(src_datatable) > 1
  /\ printed[1][1] = printed[2][1]
  /\ \E c \in 1..StatDim :
       /\ spk_max[1][c] > 0
       /\ spk_min[1][c] < SpkMinInit

\* C3: on one instance, save followed by load succeeds, load returns the
\* four arrays and the two statistics save returned, and max_seq_length is
\* the value that was saved.
C3_SaveLoadRoundTrip ==
  (pc \in {"loaded", "load_failed"} /\ ret.ok) =>
    /\ pc = "loaded"
    /\ loaded = ret
    /\ self.max_seq_length =
         fs[self.datatable_file \o ".h5"].max_seq_length

\* the real rows of the source tensors of the speaker in slot s
RealSourceValues(s, c) ==
  {ret.source_datatable[k][i][c] :
     <<k, i>> \in {ki \in (1..Len(ret.source_datatable))
                            \X (1..self.max_seq_length) :
                     /\ printed[ki[1]][1] = self.speakers[s]
                     /\ ret.source_masks[ki[1]][ki[2]] = 1}}

\* C5: when construct has completed, speakers_max[s][c] is the maximum and
\* speakers_min[s][c] the minimum of column c over the real rows of the
\* source tensors of speaker s, whatever the sign of the values.
C5_StatisticsAreExtrema ==
  (pc = "saved" /\ Len(printed) > 0) =>
    \A s \in 1..Len(self.speakers), c \in 1..StatDim :
      /\ ret.speakers_max[s][c] = SetMax(RealSourceValues(s, c))
      /\ ret.speakers_min[s][c] = SetMin(RealSourceValues(s, c))

\* C6: a constructor called with shortseq True and a max_seq_length that is
\* no integer, or with a datatable_file that is no string, does not proceed:
\* it yields no instance.
C6_BadArgumentsRejected ==
  (/\ pc # "new"
   /\ \/ (args.shortseq /\ args.max_seq_length = None)
      \/ ~IsStr(args.datatable_file)) =>
    /\ ~self.exists
    /\ pc = "ctor_failed"

\* C10: in every source tensor a row whose source mask is 0 is all zero, and
\* a row whose source mask is 1 holds the one-hot of the target speaker:
\* a single 1 among the last ten columns, at the target's ordinal.
C10_SourcePaddingConsistent ==
  \A k \in 1..Len(src_datatable) :
    \A i \in 1..self.max_seq_length :
      IF src_masks[k][i] = <<0>>
        THEN \A c \in 1..SourceWidth : src_datatable[k][i][c] = 0
      ELSE \A j \in 1..NumSpeakerSlots :
             src_datatable[k][i][TargetOneHot + j - 1] =
               (IF j = IndexOf(self.speakers, printed[k][2]) THEN 1 ELSE 0)

====
